---- MODULE Spec2Model ----
(***************************************************************************)
(* A model of propertyestimator/layers/layers.py: the registry of          *)
(* calculation layers (register_calculation_layer) and the helper which    *)
(* awaits the results of a layer and merges them into the server's data    *)
(* model (PropertyCalculationLayer._await_results and its nested           *)
(* callback_wrapper).                                                      *)
(*                                                                         *)
(* Python values which may be None are modelled as records, so that the    *)
(* `is None` tests of the code are equalities between records: None is     *)
(* [none |-> TRUE], a string s is Str(s), a list l is List(l), a           *)
(* PhysicalProperty is [id |-> ...] and an exception [message |-> ...].    *)
(***************************************************************************)
EXTENDS Integers, Sequences, FiniteSets, TLC

\* Bounds of the model.
NumProps == 2        \* properties queued on the data model of a request
MaxArtifacts == 2    \* longest data_to_store list of one result
MaxLayers == 2       \* serialized layer invocations on one data model
MaxDeliveries == 2   \* completion notifications of a backend which re-delivers
NumVariants == 2     \* distinct classes sharing one __name__

None == [none |-> TRUE]
Str(s) == [str |-> s]
List(l) == [items |-> l]

PropertyIds == 1 .. NumProps
LayerNames == {"SimulationLayer", "ReweightingLayer", "SurrogateLayer"}
LayerClasses == [name : LayerNames, variant : 1 .. NumVariants]

\* PhysicalProperty objects, identified by their id.
PhysicalProperty(id) == [id |-> id]
IsPhysicalProperty(obj) == "id" \in DOMAIN obj

\* The PhysicalProperty object a result carries: the property as calculated
\* for the result `by`, a different object from the property any other
\* result carries.
CalculatedProperty(id, by) == [id |-> id, value |-> by]

\* StoredSimulationData objects: the artifacts a result may carry. The j-th
\* artifact of a list alternates between two substances, and between lacking
\* a force field id and carrying one of its own.
StoredSimulationData(j) ==
    [substance |-> [identifier |-> IF j % 2 = 1 THEN "methanol" ELSE "water"],
     force_field_id |-> IF j % 2 = 1 THEN None ELSE Str("ff-7")]
DataLists ==
    {List([j \in 1 .. n |-> StoredSimulationData(j)]) : n \in 0 .. MaxArtifacts}

\* CalculationLayerResult objects: four independent attributes, each None
\* after construction. The calculated property carries an id of its own:
\* the id of the result, or the id of another property of the request.
OtherId(property_id) == (property_id % NumProps) + 1
CalculationLayerResult(property_id) ==
    [property_id : {property_id},
     calculated_property : {None, CalculatedProperty(property_id, property_id),
                            CalculatedProperty(OtherId(property_id), property_id)},
     calculation_error : {None, [message |-> "timeout"]},
     data_to_store : {None} \cup DataLists]

\* What one submitted future may resolve to: None (the layer could not
\* calculate the property) or a CalculationLayerResult for the property.
Outcomes(property_id) == {None} \cup CalculationLayerResult(property_id)
Pending == [pending |-> TRUE]

VARIABLES
    available_layers,        \* the registry: a dict as a set of <<key, value>>
    lastRegistration,        \* the last decoration and whether it raised
    queued_properties,       \* data_model.queued_properties: a list
    estimated_properties,    \* data_model.estimated_properties: a dict
    unsuccessful_properties, \* data_model.unsuccessful_properties: a dict
    force_field_id,          \* data_model.force_field_id
    synchronous,             \* the synchronous argument of the call
    submitted_futures,       \* what each submitted future resolved to
    callback_future,         \* the barrier task: "none", "pending", "done"
    pc,                      \* the caller of _await_results
    registered,              \* add_done_callback(callback_wrapper) was called
    wrapper,                 \* callback_wrapper: "off" or "loop"
    idx,                     \* the position of callback_wrapper's for loop
    stored,                  \* the store_simulation_data calls of this call
    seen,                    \* the data models handed to callback
    deliveries,              \* completion notifications delivered
    batch,                   \* the ids queued when _await_results was called
    layers                   \* layer invocations so far

registryVars == <<available_layers, lastRegistration>>
ledgerVars == <<queued_properties, estimated_properties,
                unsuccessful_properties, force_field_id>>
callVars == <<synchronous, submitted_futures, callback_future, pc, registered,
              wrapper, idx, stored, seen, deliveries, batch, layers>>
vars == <<registryVars, ledgerVars, callVars>>

----------------------------------------------------------------------------
\* Python dicts as sets of <<key, value>> pairs with one pair per key.
Keys(d) == {p[1] : p \in d}
DictSet(d, k, v) == {p \in d : p[1] # k} \cup {<<k, v>>}

\* list.remove(x): removes the first element equal to x.
RECURSIVE ListRemove(_, _)
ListRemove(l, x) ==
    IF l = <<>> THEN <<>>
    ELSE IF Head(l) = x THEN Tail(l)
    ELSE <<Head(l)>> \o ListRemove(Tail(l), x)

----------------------------------------------------------------------------
\* The registry of calculation layers.

\* `cls.__name__ in available_layers`
IsRegisteredWithoutLookup(cls) == FALSE
IsRegistered(cls) == cls.name \in Keys(available_layers)

\* The decorator applied to a class: raises a ValueError for a name which is
\* already in the registry, and binds the name otherwise.
register_calculation_layer(cls) ==
    /\ IF IsRegistered(cls)
       THEN /\ available_layers' = available_layers
            /\ lastRegistration' = [cls |-> cls, raised |-> TRUE]
       ELSE /\ available_layers' = DictSet(available_layers, cls.name, cls)
            /\ lastRegistration' = [cls |-> cls, raised |-> FALSE]
    /\ UNCHANGED <<ledgerVars, callVars>>

----------------------------------------------------------------------------
\* callback_wrapper, one result at a time.

\* The data model as one value.
DataModel ==
    [queued_properties |-> queued_properties,
     estimated_properties |-> estimated_properties,
     unsuccessful_properties |-> unsuccessful_properties,
     force_field_id |-> force_field_id]

\* What callback receives: the data model, and (for the record) how many
\* store_simulation_data calls had been made by then.
Handed == [data_model |-> DataModel, stores |-> Len(stored)]

\* `if returned_output is None: continue`
IsSkipped(returned_output) == returned_output = None

\* The classification, were the calculated property to come first.
ReturnObjectPropertyFirst(returned_output) ==
    IF returned_output.calculated_property # None
    THEN returned_output.calculated_property
    ELSE returned_output.calculation_error

\* The error if there is one, the calculated property (or None) otherwise.
ReturnObject(returned_output) ==
    IF returned_output.calculation_error # None
    THEN returned_output.calculation_error
    ELSE returned_output.calculated_property

\* The condition under which the data of a result is stored.
StoresData(returned_output) ==
    /\ returned_output.data_to_store # None
    /\ returned_output.calculated_property # None

\* `if data.force_field_id is None: data.force_field_id = data_model.force_field_id`
WithForceFieldOverwritten(data, ffid) == [data EXCEPT !.force_field_id = ffid]
WithForceField(data, ffid) ==
    IF data.force_field_id = None
    THEN [data EXCEPT !.force_field_id = ffid]
    ELSE data

\* The data_to_store of a result after the loop over it.
DataAfterStore(returned_output, ffid) ==
    IF StoresData(returned_output)
    THEN List([j \in DOMAIN returned_output.data_to_store.items |->
                 WithForceField(returned_output.data_to_store.items[j], ffid)])
    ELSE returned_output.data_to_store

\* The store_simulation_data(substance_id, data) calls made for a result,
\* in order. `of` records which result and which of its artifacts the call
\* was made for.
StoreCallsFirstOnly(returned_output, ffid, i) ==
    IF StoresData(returned_output) /\ returned_output.data_to_store.items # <<>>
    THEN <<[substance_id |-> returned_output.data_to_store.items[1].substance.identifier,
            data |-> WithForceField(returned_output.data_to_store.items[1], ffid),
            of |-> <<i, 1>>]>>
    ELSE <<>>
StoreCalls(returned_output, ffid, i) ==
    IF StoresData(returned_output)
    THEN [j \in DOMAIN returned_output.data_to_store.items |->
            [substance_id |-> returned_output.data_to_store.items[j].substance.identifier,
             data |-> WithForceField(returned_output.data_to_store.items[j], ffid),
             of |-> <<i, j>>]]
    ELSE <<>>

\* `matches = [x for x in queued_properties if x.id == returned_output.property_id]`
Matches(queued, returned_output) ==
    SelectSeq(queued, LAMBDA x : x.id = returned_output.property_id)

\* The removal, were it to stop after the first match.
RemoveFirstMatch(queued, matches) ==
    IF matches = <<>> THEN queued ELSE ListRemove(queued, Head(matches))

\* `for match in matches: queued_properties.remove(match)`
RECURSIVE RemoveMatches(_, _)
RemoveMatches(queued, matches) ==
    IF matches = <<>> THEN queued
    ELSE RemoveMatches(ListRemove(queued, Head(matches)), Tail(matches))

\* The queue after one result.
QueuedAfterPop(queued, returned_output) ==
    IF queued = <<>> THEN queued ELSE Tail(queued)
QueuedAfter(queued, returned_output) ==
    IF IsSkipped(returned_output) THEN queued
    ELSE RemoveMatches(queued, Matches(queued, returned_output))

\* The assignment to unsuccessful_properties, were it to assign the dict.
UnsuccessfulAfterAssigned(unsuccessful, returned_output) ==
    IF IsSkipped(returned_output) THEN unsuccessful
    ELSE IF IsPhysicalProperty(ReturnObject(returned_output))
    THEN unsuccessful
    ELSE {<<returned_output.property_id, ReturnObject(returned_output)>>}

\* The two dicts after one result: a PhysicalProperty is filed in
\* estimated_properties under its own id, anything else (an error or None)
\* in unsuccessful_properties under the id of the result.
EstimatedAfter(estimated, returned_output) ==
    IF IsSkipped(returned_output) THEN estimated
    ELSE IF IsPhysicalProperty(ReturnObject(returned_output))
    THEN DictSet(estimated, ReturnObject(returned_output).id,
                 ReturnObject(returned_output))
    ELSE estimated
UnsuccessfulAfter(unsuccessful, returned_output) ==
    IF IsSkipped(returned_output) THEN unsuccessful
    ELSE IF IsPhysicalProperty(ReturnObject(returned_output))
    THEN unsuccessful
    ELSE DictSet(unsuccessful, returned_output.property_id,
                 ReturnObject(returned_output))

----------------------------------------------------------------------------
\* One invocation of _await_results by a layer's schedule_calculation.

Constructed(queued) ==
    /\ available_layers = {}
    /\ lastRegistration = [cls |-> None, raised |-> FALSE]
    /\ queued_properties = queued
    /\ estimated_properties = {}
    /\ unsuccessful_properties = {}
    /\ force_field_id = Str("ff-42")
    /\ synchronous = FALSE
    /\ submitted_futures = <<>>
    /\ callback_future = "none"
    /\ pc = "idle"
    /\ registered = FALSE
    /\ wrapper = "off"
    /\ idx = 0
    /\ stored = <<>>
    /\ seen = <<>>
    /\ deliveries = 0
    /\ batch = <<>>
    /\ layers = 0

\* A request whose properties have ids of their own.
Init == Constructed([i \in 1 .. NumProps |-> PhysicalProperty(i)])

\* A request in which the second property carries the id of the first.
InitDuplicateId ==
    Constructed([i \in 1 .. NumProps |-> PhysicalProperty(IF i = 2 THEN 1 ELSE i)])

\* A layer may be scheduled on the data model when none is running on it:
\* at first, and from the callback of the layer before it while properties
\* are still queued.
MayStart ==
    /\ \/ pc = "idle"
       \/ pc = "returned" /\ wrapper = "off" /\ seen # <<>>
    /\ queued_properties # <<>>
    /\ layers < MaxLayers

\* The state a call starts from: the layer has submitted one future per
\* queued property, none of them resolved yet.
Called(sync) ==
    /\ synchronous' = sync
    /\ submitted_futures' = [i \in DOMAIN queued_properties |-> Pending]
    /\ batch' = [i \in DOMAIN queued_properties |-> queued_properties[i].id]
    /\ registered' = FALSE
    /\ wrapper' = "off"
    /\ idx' = 0
    /\ stored' = <<>>
    /\ deliveries' = 0
    /\ layers' = layers + 1

\* `callback_future = calculation_backend.submit_task(return_args, ...)`
AwaitResults(sync) ==
    /\ MayStart
    /\ Called(sync)
    /\ callback_future' = "pending"
    /\ pc' = "submitted"
    /\ seen' = <<>>
    /\ UNCHANGED <<registryVars, ledgerVars>>

\* submit_task raises: the exception leaves _await_results, which has no
\* handler, before callback_wrapper is even defined.
AwaitResultsRaisesAfterCallback(sync) ==
    /\ MayStart
    /\ Called(sync)
    /\ callback_future' = "none"
    /\ pc' = "raised"
    /\ seen' = <<Handed>>
    /\ UNCHANGED <<registryVars, ledgerVars>>
AwaitResultsRaises(sync) ==
    /\ MayStart
    /\ Called(sync)
    /\ callback_future' = "none"
    /\ pc' = "raised"
    /\ seen' = <<>>
    /\ UNCHANGED <<registryVars, ledgerVars>>

\* A submitted future resolves to the result of its property. (After
\* submit_task has raised nothing reads the futures any more.)
ResolveFuture(i) ==
    /\ pc # "raised"
    /\ i \in DOMAIN submitted_futures
    /\ submitted_futures[i] = Pending
    /\ \E returned_output \in Outcomes(batch[i]) :
          submitted_futures' = [submitted_futures EXCEPT ![i] = returned_output]
    /\ UNCHANGED <<registryVars, ledgerVars, synchronous, callback_future, pc,
                   registered, wrapper, idx, stored, seen, deliveries, batch,
                   layers>>

Resolved == \A i \in DOMAIN submitted_futures : submitted_futures[i] # Pending

\* The barrier task, were it to run as soon as one future has resolved.
return_args_on_first ==
    /\ callback_future = "pending"
    /\ \E i \in DOMAIN submitted_futures : submitted_futures[i] # Pending
    /\ callback_future' = "done"
    /\ UNCHANGED <<registryVars, ledgerVars, synchronous, submitted_futures, pc,
                   registered, wrapper, idx, stored, seen, deliveries, batch,
                   layers>>

\* The barrier task: return_args(data_model, *submitted_futures) runs once
\* every future it depends on has resolved, and returns its arguments.
return_args ==
    /\ callback_future = "pending"
    /\ Resolved
    /\ callback_future' = "done"
    /\ UNCHANGED <<registryVars, ledgerVars, synchronous, submitted_futures, pc,
                   registered, wrapper, idx, stored, seen, deliveries, batch,
                   layers>>

\* `return args`
Args(args) == args

\* callback_future.result(): what return_args returns for the arguments of
\* submit_task, the data model and the (resolved) submitted futures.
FutureResult == Args(<<DataModel>> \o submitted_futures)

\* `results = list(future_object.result())` after `results.pop(0)`, and the
\* data model popped.
Results == Tail(FutureResult)
ReturnedDataModel == Head(FutureResult)

\* `callback_future.add_done_callback(callback_wrapper)`, were it to run the
\* wrapper on the calling thread when the barrier task is already done.
AddDoneCallbackAndCall ==
    /\ pc = "submitted"
    /\ ~synchronous
    /\ \/ registered' = TRUE /\ pc' = "returned" /\ UNCHANGED <<wrapper, idx>>
       \/ /\ callback_future = "done"
          /\ wrapper' = "loop" /\ idx' = 1 /\ pc' = "blocked"
          /\ UNCHANGED registered
    /\ UNCHANGED <<registryVars, ledgerVars, synchronous, submitted_futures,
                   callback_future, stored, seen, deliveries, batch, layers>>

\* `callback_future.add_done_callback(callback_wrapper)`, and the return.
AddDoneCallbackWithoutElse ==
    /\ \/ pc = "submitted" /\ ~synchronous
       \/ pc = "returned" /\ synchronous /\ ~registered /\ wrapper = "off"
    /\ registered' = TRUE
    /\ pc' = "returned"
    /\ UNCHANGED <<registryVars, ledgerVars, synchronous, submitted_futures,
                   callback_future, wrapper, idx, stored, seen, deliveries,
                   batch, layers>>
AddDoneCallback ==
    /\ pc = "submitted"
    /\ ~synchronous
    /\ registered' = TRUE
    /\ pc' = "returned"
    /\ UNCHANGED <<registryVars, ledgerVars, synchronous, submitted_futures,
                   callback_future, wrapper, idx, stored, seen, deliveries,
                   batch, layers>>

\* The synchronous branch, were it to register the wrapper and return.
CallWrapperDeferred ==
    /\ pc = "submitted"
    /\ synchronous
    /\ registered' = TRUE
    /\ pc' = "returned"
    /\ UNCHANGED <<registryVars, ledgerVars, synchronous, submitted_futures,
                   callback_future, wrapper, idx, stored, seen, deliveries,
                   batch, layers>>

\* `callback_wrapper(callback_future)` on the caller's thread: result()
\* blocks until the barrier task is done.
CallWrapper ==
    /\ pc = "submitted"
    /\ synchronous
    /\ callback_future = "done"
    /\ pc' = "blocked"
    /\ wrapper' = "loop"
    /\ idx' = 1
    /\ UNCHANGED <<registryVars, ledgerVars, synchronous, submitted_futures,
                   callback_future, registered, stored, seen, deliveries,
                   batch, layers>>

\* The backend notifies the done callback of the finished barrier task.
Notify ==
    /\ registered
    /\ callback_future = "done"
    /\ wrapper = "off"
    /\ wrapper' = "loop"
    /\ idx' = 1
    /\ deliveries' = deliveries + 1
    /\ UNCHANGED <<registryVars, ledgerVars, synchronous, submitted_futures,
                   callback_future, pc, registered, stored, seen, batch, layers>>

\* The notification a future delivers once it is done.
Deliver == deliveries = 0 /\ Notify

\* A backend which only promises to notify at least once notifies again.
Redeliver == deliveries >= 1 /\ deliveries < MaxDeliveries /\ Notify

\* The iteration, were it to skip a result which matches no queued entry.
MergeOutputSkippingUnmatched ==
    /\ wrapper = "loop"
    /\ idx <= Len(Results)
    /\ LET returned_output == Results[idx]
           skipped == \/ IsSkipped(returned_output)
                      \/ Matches(queued_properties, returned_output) = <<>>
       IN
          /\ queued_properties' =
                IF skipped THEN queued_properties
                ELSE QueuedAfter(queued_properties, returned_output)
          /\ estimated_properties' =
                IF skipped THEN estimated_properties
                ELSE EstimatedAfter(estimated_properties, returned_output)
          /\ unsuccessful_properties' =
                IF skipped THEN unsuccessful_properties
                ELSE UnsuccessfulAfter(unsuccessful_properties, returned_output)
          /\ IF skipped
             THEN UNCHANGED <<stored, submitted_futures>>
             ELSE /\ stored' = stored \o
                               StoreCalls(returned_output, force_field_id, idx)
                  /\ submitted_futures' =
                        [submitted_futures EXCEPT ![idx].data_to_store =
                            DataAfterStore(returned_output, force_field_id)]
    /\ idx' = idx + 1
    /\ UNCHANGED <<registryVars, force_field_id, synchronous, callback_future,
                   pc, registered, wrapper, seen, deliveries, batch, layers>>

\* One iteration of `for returned_output in results`.
MergeOutput ==
    /\ wrapper = "loop"
    /\ idx <= Len(Results)
    /\ LET returned_output == Results[idx] IN
          /\ queued_properties' = QueuedAfter(queued_properties, returned_output)
          /\ estimated_properties' =
                EstimatedAfter(estimated_properties, returned_output)
          /\ unsuccessful_properties' =
                UnsuccessfulAfter(unsuccessful_properties, returned_output)
          /\ IF IsSkipped(returned_output)
             THEN UNCHANGED <<stored, submitted_futures>>
             ELSE /\ stored' = stored \o
                               StoreCalls(returned_output, force_field_id, idx)
                  /\ submitted_futures' =
                        [submitted_futures EXCEPT ![idx].data_to_store =
                            DataAfterStore(returned_output, force_field_id)]
    /\ idx' = idx + 1
    /\ UNCHANGED <<registryVars, force_field_id, synchronous, callback_future,
                   pc, registered, wrapper, seen, deliveries, batch, layers>>

\* The for loop has run over every result.
LoopLeftEarly(i, results) == i > 1
LoopDone(i, results) == i > Len(results)

\* `callback(returned_data_model)`, and the return of callback_wrapper
\* (and with it, in synchronous mode, of _await_results).
InvokeCallback ==
    /\ wrapper = "loop"
    /\ LoopDone(idx, Results)
    /\ seen' = Append(seen, [data_model |-> ReturnedDataModel,
                             stores |-> Len(stored)])
    /\ wrapper' = "off"
    /\ pc' = IF pc = "blocked" THEN "returned" ELSE pc
    /\ UNCHANGED <<registryVars, ledgerVars, synchronous, submitted_futures,
                   callback_future, registered, idx, stored, deliveries, batch,
                   layers>>

\* The whole for loop over a list of results, from a data model and the set
\* of store_simulation_data calls made so far (each call with the id of the
\* result it was made for).
RECURSIVE MergeAll(_, _)
MergeAll(merged, results) ==
    IF results = <<>> THEN merged
    ELSE LET returned_output == Head(results)
             data_model == merged.data_model
             calls == IF IsSkipped(returned_output) THEN <<>>
                      ELSE StoreCalls(returned_output, data_model.force_field_id,
                                      returned_output.property_id)
         IN  MergeAll(
                [data_model |->
                    [queued_properties |->
                        QueuedAfter(data_model.queued_properties, returned_output),
                     estimated_properties |->
                        EstimatedAfter(data_model.estimated_properties,
                                       returned_output),
                     unsuccessful_properties |->
                        UnsuccessfulAfter(data_model.unsuccessful_properties,
                                          returned_output),
                     force_field_id |-> data_model.force_field_id],
                 calls |-> merged.calls \cup {calls[k] : k \in DOMAIN calls}],
                Tail(results))

Layer ==
    \/ \E sync \in BOOLEAN : AwaitResults(sync)
    \/ \E sync \in BOOLEAN : AwaitResultsRaises(sync)
    \/ \E i \in 1 .. NumProps : ResolveFuture(i)
    \/ return_args
    \/ AddDoneCallback
    \/ CallWrapper
    \/ Deliver
    \/ MergeOutput
    \/ InvokeCallback

\* A layer on a backend whose futures notify their callbacks once.
Next == Layer
Spec == Init /\ [][Next]_vars

\* A layer on a backend which may repeat the completion notification.
NextRedeliver == Layer \/ Redeliver
SpecRedeliver == Init /\ [][NextRedeliver]_vars

\* A layer scheduled on a request with two properties of one id.
SpecDuplicateId == InitDuplicateId /\ [][Next]_vars

\* The decorations of a starting process.
NextRegistry == \E cls \in LayerClasses : register_calculation_layer(cls)
SpecRegistry == Init /\ [][NextRegistry]_vars

----------------------------------------------------------------------------
\* The properties.

IdsOf(queued) == {queued[i].id : i \in DOMAIN queued}
Count(calls, of) == Cardinality({k \in DOMAIN calls : calls[k].of = of})
CountFor(calls, i) == Cardinality({k \in DOMAIN calls : calls[k].of[1] = i})

\* The runs of callback_wrapper which have merged the i-th result: those
\* which have returned, and the running one once its loop is past i.
RunsPast(i) == Len(seen) + (IF wrapper = "loop" /\ idx > i THEN 1 ELSE 0)

\* C1: when callback is invoked, every id of the batch is in exactly one of
\* queued_properties, estimated_properties and unsuccessful_properties, and
\* it is still queued exactly if its result was None.
C1_BatchPartitioned ==
    \A n \in DOMAIN seen : \A i \in DOMAIN batch :
        LET data_model == seen[n].data_model
            inQueued == batch[i] \in IdsOf(data_model.queued_properties)
            inEstimated == batch[i] \in Keys(data_model.estimated_properties)
            inUnsuccessful == batch[i] \in Keys(data_model.unsuccessful_properties)
        IN  /\ inQueued \/ inEstimated \/ inUnsuccessful
            /\ ~(inQueued /\ inEstimated)
            /\ ~(inQueued /\ inUnsuccessful)
            /\ ~(inEstimated /\ inUnsuccessful)
            /\ inQueued <=> submitted_futures[i] = None

\* C2 (as claimed): callback is invoked exactly once per invocation of
\* _await_results, also on a backend which only promises to deliver the
\* completion notification at least once: never more than once, and once
\* when the invocation has returned and the notification was delivered.
Completed ==
    /\ pc = "returned"
    /\ wrapper = "off"
    /\ synchronous \/ deliveries >= 1
C3_NoStoreForFailed ==
    \A k \in DOMAIN stored :
        submitted_futures[stored[k].of[1]].calculation_error = None

C5_LedgerDisjoint ==
    /\ Keys(estimated_properties) \cap Keys(unsuccessful_properties) = {}
    /\ (Keys(estimated_properties) \cup Keys(unsuccessful_properties))
          \cap IdsOf(queued_properties) = {}

\* C6: the iteration over a None result changes neither the queue nor the
\* two dicts and makes no store call, and its property is still queued, also
\* when callback is invoked.
C6_NoneIsSkipped ==
    [][/\ (wrapper = "loop" /\ idx <= Len(submitted_futures) /\ idx' = idx + 1
             /\ submitted_futures[idx] = None) =>
              /\ UNCHANGED <<ledgerVars, stored>>
              /\ batch[idx] \in IdsOf(queued_properties')
       /\ Len(seen') > Len(seen) =>
              \A i \in DOMAIN batch :
                  submitted_futures[i] = None =>
                      batch[i] \in IdsOf(queued_properties')]_vars
C6_Witness ==
    /\ seen # <<>>
    /\ \E i \in DOMAIN batch : submitted_futures[i] = None
    /\ \E i \in DOMAIN batch : submitted_futures[i] # None
    /\ Len(queued_properties) = 1

\* C7: when submit_task raises, the exception leaves _await_results,
\* callback is never invoked for the invocation, and the queue, the two
\* dicts (and the storage backend) are as they were before the call.
C7_SubmissionFailure ==
    [][pc' = "raised" =>
          /\ UNCHANGED ledgerVars
          /\ seen' = <<>>
          /\ stored' = <<>>
          /\ wrapper' = "off"]_vars
C7_Witness ==
    /\ pc = "raised"
    /\ layers = 2
    /\ estimated_properties # {}
    /\ queued_properties # <<>>

\* C8: a decoration under a name which is already registered raises and
\* leaves the registry as it was; any other decoration binds its own name
\* and changes no other binding; so a name stays bound to the first class
\* registered under it.
C8_RegistryUniqueness ==
    [][/\ \A p \in available_layers : p \in available_layers'
       /\ \A p, q \in available_layers' : p[1] = q[1] => p = q
       /\ <<available_layers, lastRegistration>>' # <<available_layers, lastRegistration>> =>
             LET cls == lastRegistration'.cls IN
                IF cls.name \in Keys(available_layers)
                THEN /\ lastRegistration'.raised
                     /\ available_layers' = available_layers
                ELSE /\ ~lastRegistration'.raised
                     /\ available_layers' = available_layers \cup {<<cls.name, cls>>}]_vars
C8_Witness ==
    /\ lastRegistration.raised
    /\ Cardinality(available_layers) >= 2
    /\ <<lastRegistration.cls.name, lastRegistration.cls>> \notin available_layers

\* C9 (as claimed): at most one store_simulation_data call is made per
\* result, however many artifacts it carries and however often the
\* completion notification is delivered.
C9_AtMostOneStorePerResult ==
    \A i \in DOMAIN submitted_futures : CountFor(stored, i) <= 1

\* C9 (amended): each run of callback_wrapper makes exactly one
\* store_simulation_data call per artifact in the data_to_store of each
\* result which has a calculated property, and none for any other result.
C9_OneStorePerArtifactPerRun ==
    \A i \in DOMAIN submitted_futures :
        IF RunsPast(i) > 0 /\ submitted_futures[i] # None
              /\ StoresData(submitted_futures[i])
        THEN /\ \A j \in DOMAIN submitted_futures[i].data_to_store.items :
                    Count(stored, <<i, j>>) = RunsPast(i)
             /\ CountFor(stored, i) =
                    RunsPast(i) * Len(submitted_futures[i].data_to_store.items)
        ELSE CountFor(stored, i) = 0
C9_Witness ==
    /\ Len(seen) = 2
    /\ \E i \in DOMAIN submitted_futures : CountFor(stored, i) = 2 * MaxArtifacts
    /\ \E i \in DOMAIN submitted_futures :
          /\ submitted_futures[i] # None
          /\ submitted_futures[i].data_to_store # None
          /\ submitted_futures[i].data_to_store.items # <<>>
          /\ CountFor(stored, i) = 0

\* C10: every store_simulation_data call is keyed by the substance
\* identifier of the artifact it stores, and the artifact carries a force
\* field id then: the data model's if it had none, its own unchanged if it
\* had one; the force_field_id of the data model is never modified.
C10_StoredWithForceField ==
    /\ force_field_id = Str("ff-42")
    /\ \A k \in DOMAIN stored :
          LET call == stored[k]
              original == StoredSimulationData(call.of[2]) IN
             /\ call.substance_id = original.substance.identifier
             /\ call.data.substance = original.substance
             /\ call.data.force_field_id # None
             /\ original.force_field_id = None =>
                   call.data.force_field_id = force_field_id
             /\ original.force_field_id # None =>
                   call.data.force_field_id = original.force_field_id
C10_Witness ==
    /\ \E k \in DOMAIN stored :
          StoredSimulationData(stored[k].of[2]).force_field_id = None
    /\ \E k \in DOMAIN stored :
          StoredSimulationData(stored[k].of[2]).force_field_id # None
    /\ seen # <<>>

\* C11: in synchronous mode _await_results has returned only when the
\* barrier task is done, every result has been merged and callback has run:
\* the data model is then what callback was handed, fully merged.
C11_SynchronousReturn ==
    synchronous /\ pc = "returned" =>
        /\ callback_future = "done"
        /\ Resolved
        /\ wrapper = "off"
        /\ idx = Len(Results) + 1
        /\ Len(seen) = 1
        /\ seen[1] = Handed
C11_Witness ==
    /\ synchronous
    /\ pc = "returned"
    /\ Len(batch) = NumProps
    /\ estimated_properties # {}
    /\ stored # <<>>

\* C12: in asynchronous mode nothing of callback_wrapper happens before the
\* completion notification is delivered: the call registers the wrapper and
\* returns, with the data model untouched, no store call made and callback
\* not invoked; and it may return while futures are still unresolved.
C12_AsynchronousReturn ==
    [][(~synchronous' /\ pc' \in {"submitted", "blocked", "returned"}
          /\ deliveries' = 0) =>
          /\ UNCHANGED ledgerVars
          /\ stored' = <<>>
          /\ seen' = <<>>
          /\ wrapper' = "off"
          /\ pc' # "blocked"
          /\ pc' = "returned" <=> registered']_vars
C12_Witness ==
    /\ ~synchronous
    /\ pc = "returned"
    /\ registered
    /\ callback_future = "pending"
    /\ \A i \in DOMAIN submitted_futures : submitted_futures[i] = Pending
    /\ deliveries = 0

\* A result with a calculation error, and one with a calculated property
\* and no error.
IsFailed(returned_output) ==
    returned_output # None /\ returned_output.calculation_error # None
IsComputed(returned_output) ==
    /\ returned_output # None
    /\ returned_output.calculation_error = None
    /\ returned_output.calculated_property # None

\* C13: when a result of the batch has failed, callback still receives every
\* computed result of the batch in estimated_properties and every failed
\* one, with its error, in unsuccessful_properties, each under its id.
C13_FailureIsData ==
    \A n \in DOMAIN seen :
        (\E i \in DOMAIN batch : IsFailed(Results[i])) =>
            \A i \in DOMAIN batch :
                /\ IsFailed(Results[i]) =>
                      <<batch[i], Results[i].calculation_error>>
                          \in seen[n].data_model.unsuccessful_properties
                /\ IsComputed(Results[i]) =>
                      <<batch[i], Results[i].calculated_property>>
                          \in seen[n].data_model.estimated_properties

\* C14: when the barrier task is done, the data model and the set of store
\* calls the loop ends with are the same whatever the order in which the
\* results are merged.
Orders(n) ==
    {f \in [1 .. n -> 1 .. n] : \A i, j \in 1 .. n : f[i] = f[j] => i = j}
C14_OrderIndependent ==
    (callback_future = "done" /\ idx = 0) =>
        \A f \in Orders(Len(Results)) :
            MergeAll([data_model |-> DataModel, calls |-> {}],
                     [i \in DOMAIN Results |-> Results[f[i]]])
              = MergeAll([data_model |-> DataModel, calls |-> {}], Results)

\* C15: a merged result is filed under its property_id, the id its queued
\* entry was found by: a calculated property in estimated_properties,
\* anything else in unsuccessful_properties.
C15_KeyedByPropertyId ==
    [][(wrapper = "loop" /\ idx <= Len(Results) /\ idx' = idx + 1
          /\ Results[idx] # None) =>
          IF IsPhysicalProperty(ReturnObject(Results[idx]))
          THEN /\ estimated_properties' =
                     DictSet(estimated_properties, Results[idx].property_id,
                             ReturnObject(Results[idx]))
               /\ UNCHANGED unsuccessful_properties
          ELSE /\ unsuccessful_properties' =
                     DictSet(unsuccessful_properties, Results[idx].property_id,
                             ReturnObject(Results[idx]))
               /\ UNCHANGED estimated_properties]_vars

\* The step of the loop over a result which is not None.
MergesResult ==
    /\ wrapper = "loop"
    /\ idx <= Len(Results)
    /\ idx' = idx + 1
    /\ Results[idx] # None
Unmatched == Matches(queued_properties, Results[idx]) = <<>>

\* C16 (as claimed): a result whose property_id matches no queued entry is
\* not merged: nothing is added to either dict and nothing is stored.
C16_UnmatchedIsSkipped ==
    [][(MergesResult /\ Unmatched) =>
          UNCHANGED <<estimated_properties, unsuccessful_properties, stored>>]_vars

\* C16 (amended): a result whose property_id matches no queued entry
\* removes nothing from the queue but is merged like any other: its data is
\* stored if it has a calculated property, and it is filed in one of the
\* two dicts; the loop goes on over the other results, and callback is
\* invoked after the last.
C16_UnmatchedIsMerged ==
    [][/\ (MergesResult /\ Unmatched) =>
             /\ UNCHANGED queued_properties
             /\ Len(stored') = Len(stored) +
                   (IF /\ Results[idx].calculated_property # None
                       /\ Results[idx].data_to_store # None
                    THEN Len(Results[idx].data_to_store.items) ELSE 0)
             /\ IF IsComputed(Results[idx])
                THEN /\ <<Results[idx].calculated_property.id,
                          Results[idx].calculated_property>>
                            \in estimated_properties'
                     /\ UNCHANGED unsuccessful_properties
                ELSE /\ <<Results[idx].property_id, ReturnObject(Results[idx])>>
                            \in unsuccessful_properties'
                     /\ UNCHANGED estimated_properties
       /\ Len(seen') > Len(seen) => idx = Len(Results) + 1]_vars
C16_Witness ==
    /\ seen # <<>>
    /\ Len(batch) >= 2
    /\ batch[1] = batch[2]
    /\ Results[1] # None
    /\ IsComputed(Results[2])
    /\ Results[2].data_to_store # None
    /\ CountFor(stored, 2) = MaxArtifacts
    /\ <<Results[2].calculated_property.id, Results[2].calculated_property>>
          \in estimated_properties

\* C17 (as claimed): merging a result which is not None removes exactly one
\* entry from the queue, one whose id is the property_id of the result.
C17_RemovesExactlyOne ==
    [][MergesResult =>
          \E k \in DOMAIN queued_properties :
              /\ queued_properties[k].id = Results[idx].property_id
              /\ queued_properties' =
                    SubSeq(queued_properties, 1, k - 1) \o
                    SubSeq(queued_properties, k + 1, Len(queued_properties))]_vars

\* C17 (amended): merging a result which is not None removes from the queue
\* every entry whose id is the property_id of the result (one, several or
\* none) and no entry with another id.
C17_RemovesEveryMatch ==
    [][MergesResult =>
          queued_properties' =
              SelectSeq(queued_properties,
                        LAMBDA x : x.id # Results[idx].property_id)]_vars
C17_Witness ==
    /\ wrapper = "loop"
    /\ idx = 2
    /\ Len(batch) = NumProps
    /\ batch[1] = batch[2]
    /\ Len(queued_properties) = Len(batch) - 2

\* C18: the barrier task is done only when every submitted future has
\* resolved, and callback_wrapper runs only on a done barrier task; its
\* result is the data model followed by one result per submitted future.
C18_Barrier ==
    /\ callback_future = "done" =>
          /\ Resolved
          /\ Len(FutureResult) = 1 + Len(batch)
          /\ Head(FutureResult) = DataModel
          /\ \A i \in DOMAIN batch :
                /\ FutureResult[i + 1] = submitted_futures[i]
                /\ FutureResult[i + 1] # None =>
                      FutureResult[i + 1].property_id = batch[i]
    /\ (wrapper = "loop" \/ seen # <<>>) => callback_future = "done"
C18_Witness ==
    /\ wrapper = "loop"
    /\ idx = 1
    /\ Len(batch) = NumProps
    /\ \A i \in DOMAIN batch : IsComputed(submitted_futures[i])

\* a is b with some of its entries removed.
RECURSIVE IsSubsequence(_, _)
IsSubsequence(a, b) ==
    IF a = <<>> THEN TRUE
    ELSE IF b = <<>> THEN FALSE
    ELSE IF Head(a) = Head(b) THEN IsSubsequence(Tail(a), Tail(b))
    ELSE IsSubsequence(a, Tail(b))

\* The key a merge step files its result under.
WrittenKey ==
    IF IsPhysicalProperty(ReturnObject(Results[idx]))
    THEN ReturnObject(Results[idx]).id
    ELSE Results[idx].property_id

\* C19: no step of a merge adds an entry to the queue: the queue after the
\* step is the queue before it with entries removed; and no step removes a
\* key from either dict, or changes any entry but the one it files its own
\* result under.
C19_QueueOnlyShrinks ==
    [][layers' = layers =>
          /\ IsSubsequence(queued_properties', queued_properties)
          /\ IdsOf(queued_properties') \subseteq IdsOf(queued_properties)
          /\ Keys(estimated_properties) \subseteq Keys(estimated_properties')
          /\ Keys(unsuccessful_properties) \subseteq Keys(unsuccessful_properties')
          /\ MergesResult =>
                \A p \in estimated_properties \cup unsuccessful_properties :
                    p[1] # WrittenKey =>
                        p \in estimated_properties' \cup unsuccessful_properties'
          /\ ~MergesResult =>
                UNCHANGED <<estimated_properties, unsuccessful_properties>>]_vars
C19_Witness ==
    /\ layers = 2
    /\ seen # <<>>
    /\ queued_properties = <<>>
    /\ Cardinality(Keys(unsuccessful_properties)) = NumProps

\* C20: a result with a calculation error is filed, with the error, in
\* unsuccessful_properties and not in estimated_properties, whether or not
\* it has a calculated property; a result with neither is filed in
\* unsuccessful_properties with None; only a result with a calculated
\* property and no error is filed in estimated_properties.
C20_ErrorPrecedence ==
    [][MergesResult =>
          LET returned_output == Results[idx] IN
             IF returned_output.calculation_error # None
             THEN /\ <<returned_output.property_id, returned_output.calculation_error>>
                        \in unsuccessful_properties'
                  /\ UNCHANGED estimated_properties
             ELSE IF returned_output.calculated_property = None
             THEN /\ <<returned_output.property_id, None>>
                        \in unsuccessful_properties'
                  /\ UNCHANGED estimated_properties
             ELSE /\ <<returned_output.calculated_property.id,
                       returned_output.calculated_property>>
                        \in estimated_properties'
                  /\ UNCHANGED unsuccessful_properties]_vars
C20_Witness ==
    /\ seen # <<>>
    /\ Len(batch) = NumProps
    /\ Results[1] # None
    /\ Results[1].calculation_error # None
    /\ Results[1].calculated_property # None
    /\ Results[2] # None
    /\ Results[2].calculation_error = None
    /\ Results[2].calculated_property = None
    /\ estimated_properties = {}
    /\ <<batch[2], None>> \in unsuccessful_properties

====
